---------------------------- MODULE Spec2Model ----------------------------
(***************************************************************************)
(* Adafruit_LittleFS: the mount/format lifecycle of the filesystem object  *)
(* and its recursive mkdir, modelled from Adafruit_LittleFS.cpp.           *)
(*                                                                         *)
(* The littlefs library (lfs_mount, lfs_unmount, lfs_format, lfs_mkdir,    *)
(* lfs_stat) is not part of the modelled file; it is modelled by what the  *)
(* specification says of it: an lfs_t that does or does not hold an active *)
(* mount, a device that is or is not formatted, a tree of directories.     *)
(* Every library routine may fail; which way it goes is an input of the    *)
(* action that calls it.                                                   *)
(***************************************************************************)
EXTENDS Integers, Sequences, FiniteSets, TLC

VARIABLES
  mounted,            \* Adafruit_LittleFS::_mounted
  lfs_cfg,            \* Adafruit_LittleFS::_lfs_cfg (NULL when absent)
  active,             \* _lfs: TRUE when the library holds an active mount
  disk,               \* what the flash holds: "formatted" or "corrupt"
  hist,               \* the last HistLen lifecycle calls, oldest first
  mountsSinceMounted, \* lfs_mount calls since _mounted last became true
  beginMounts,        \* the same, counting only those made by begin()
  tree,               \* the directories of the mounted filesystem
  argPath,            \* the path the client's calls are made with
  last,               \* the last path operation (mkdir, exists, remove)
  flash,              \* the flash: address -> byte
  buf,                \* the buffer the last read filled
  fArgs,              \* block, offset, size and data seed the client uses
  pending,            \* the last program whose bytes nothing has written over
  flast               \* the last block-device operation

vars == <<mounted, lfs_cfg, active, disk, hist, mountsSinceMounted,
          beginMounts, tree, argPath, last, flash, buf, fArgs, pending, flast>>

lifeVars == <<mounted, lfs_cfg, active, disk, hist, mountsSinceMounted, beginMounts>>
pathVars == <<tree, argPath, last>>
flashVars == <<flash, buf, fArgs, pending, flast>>

---------------------------------------------------------------------------
(* Bounds *)

HistLen == 3
MaxCount == 3
MaxPathLen == 6
MaxInitLen == 3
NumBlocks == 2

---------------------------------------------------------------------------
(* Values *)

NULL == "NULL"
InternalFSConfig == "_InternalFSConfig"
Configs == {InternalFSConfig, "userConfig"}

LFS_ERR_OK == "LFS_ERR_OK"
LFS_ERR_IO == "LFS_ERR_IO"
LFS_ERR_CORRUPT == "LFS_ERR_CORRUPT"
LFS_ERR_NOENT == "LFS_ERR_NOENT"
LFS_ERR_EXIST == "LFS_ERR_EXIST"
LFS_ERR_INVAL == "LFS_ERR_INVAL"
LFS_ERR_NOSPC == "LFS_ERR_NOSPC"
LFS_ERR_NOMEM == "LFS_ERR_NOMEM"

Min(a, b) == IF a < b THEN a ELSE b

\* Number of calls of library routine fn in a call log.
Count(calls, fn) == Cardinality({i \in 1..Len(calls) : calls[i].fn = fn})

\* The last n elements of a sequence.
Tail_n(s, n) == IF Len(s) <= n THEN s ELSE SubSeq(s, Len(s) - n + 1, Len(s))

---------------------------------------------------------------------------
(* The littlefs library, as the lifecycle sees it.  r is the outcome the   *)
(* environment (flash, heap) allows for this call.                         *)

\* VERIFY_LFS(expr, ret): leaves the function with ret when expr is not 0.
VerifyFails(rc) == rc # LFS_ERR_OK

\* VERIFY_LFS(expr) with no return value given: what the function returns
\* when expr is not 0.  Every public operation answers with a success flag.
VerifyDefaultRet_status(rc) == rc # LFS_ERR_OK

VerifyDefaultRet(rc) == FALSE

\* lfs_mount: rejects a device that holds no valid filesystem; on a formatted
\* device it succeeds unless the environment fails it.  A failed mount leaves
\* no active mount.
lfs_mount(act, dsk, cfg, r) ==
  LET rc == IF dsk # "formatted" THEN LFS_ERR_CORRUPT ELSE r
  IN  [rc |-> rc, active |-> (rc = LFS_ERR_OK), disk |-> dsk]

\* lfs_unmount: on success the mount is gone; on failure it stays as it was.
lfs_unmount(act, dsk, r) ==
  [rc |-> r, active |-> IF r = LFS_ERR_OK THEN FALSE ELSE act, disk |-> dsk]

\* lfs_format: writes a fresh filesystem.  LFS_ERR_NOMEM fails before any
\* write, LFS_ERR_IO fails part-way and leaves the device unusable.  Format
\* never leaves an active mount behind.
lfs_format(act, dsk, cfg, r) ==
  [rc |-> r,
   active |-> FALSE,
   disk |-> CASE r = LFS_ERR_OK -> "formatted"
              [] r = LFS_ERR_IO -> "corrupt"
              [] OTHER -> dsk]

MountWishes == {LFS_ERR_OK, LFS_ERR_IO}
UnmountWishes == {LFS_ERR_OK, LFS_ERR_IO}
FormatWishes == {LFS_ERR_OK, LFS_ERR_IO, LFS_ERR_NOMEM}

\* One entry of an operation's call log: the routine, the config passed, the
\* result, and _mounted and the library's mount at the moment of the call.
Call(fn, cfg, rc, flag, act) ==
  [fn |-> fn, cfg |-> cfg, rc |-> rc, flag |-> flag, active |-> act]

---------------------------------------------------------------------------
(* Adafruit_LittleFS lifecycle operations.  Each returns the object's      *)
(* fields after the call, the return value and the library calls made.     *)

Out(ret, m, c, act, dsk, calls) ==
  [ret |-> ret, mounted |-> m, lfs_cfg |-> c, active |-> act, disk |-> dsk,
   calls |-> calls]

\* begin without the early return: mounts again when already mounted.
begin_remount(m, c, act, dsk, cfg, r) ==
  LET c1 == IF cfg # NULL THEN cfg ELSE c IN
  IF c1 = NULL THEN Out(FALSE, m, c1, act, dsk, <<>>)
  ELSE LET mt == lfs_mount(act, dsk, c1, r)
           log == <<Call("lfs_mount", c1, mt.rc, m, act)>>
       IN  IF VerifyFails(mt.rc)
           THEN Out(FALSE, m, c1, mt.active, mt.disk, log)
           ELSE Out(TRUE, TRUE, c1, mt.active, mt.disk, log)

\* begin storing the config before it looks at _mounted.
begin_cfgFirst(m, c, act, dsk, cfg, r) ==
  LET c1 == IF cfg # NULL THEN cfg ELSE c IN
  IF m THEN Out(TRUE, m, c1, act, dsk, <<>>)
  ELSE IF c1 = NULL THEN Out(FALSE, m, c1, act, dsk, <<>>)
  ELSE LET mt == lfs_mount(act, dsk, c1, r)
           log == <<Call("lfs_mount", c1, mt.rc, m, act)>>
       IN  IF VerifyFails(mt.rc)
           THEN Out(FALSE, m, c1, mt.active, mt.disk, log)
           ELSE Out(TRUE, TRUE, c1, mt.active, mt.disk, log)

\* begin without the check for a missing config.
begin_noCfgCheck(m, c, act, dsk, cfg, r) ==
  IF m THEN Out(TRUE, m, c, act, dsk, <<>>)
  ELSE LET c1 == IF cfg # NULL THEN cfg ELSE c
           mt == lfs_mount(act, dsk, c1, r)
           log == <<Call("lfs_mount", c1, mt.rc, m, act)>>
       IN  IF VerifyFails(mt.rc)
           THEN Out(FALSE, m, c1, mt.active, mt.disk, log)
           ELSE Out(TRUE, TRUE, c1, mt.active, mt.disk, log)

\* begin setting _mounted before it verifies the mount.
begin_flagEarly(m, c, act, dsk, cfg, r) ==
  IF m THEN Out(TRUE, m, c, act, dsk, <<>>)
  ELSE LET c1 == IF cfg # NULL THEN cfg ELSE c IN
       IF c1 = NULL THEN Out(FALSE, m, c1, act, dsk, <<>>)
       ELSE LET mt == lfs_mount(act, dsk, c1, r)
                log == <<Call("lfs_mount", c1, mt.rc, TRUE, act)>>
            IN  IF VerifyFails(mt.rc)
                THEN Out(FALSE, TRUE, c1, mt.active, mt.disk, log)
                ELSE Out(TRUE, TRUE, c1, mt.active, mt.disk, log)

\* bool Adafruit_LittleFS::begin (struct lfs_config * cfg)
begin(m, c, act, dsk, cfg, r) ==
  IF m THEN Out(TRUE, m, c, act, dsk, <<>>)
  ELSE LET c1 == IF cfg # NULL THEN cfg ELSE c IN
       IF c1 = NULL THEN Out(FALSE, m, c1, act, dsk, <<>>)
       ELSE LET mt == lfs_mount(act, dsk, c1, r)
                log == <<Call("lfs_mount", c1, mt.rc, m, act)>>
            IN  IF VerifyFails(mt.rc)
                THEN Out(FALSE, m, c1, mt.active, mt.disk, log)
                ELSE Out(TRUE, TRUE, c1, mt.active, mt.disk, log)

\* end committing the flag only after a successful unmount.
end_commitLate(m, c, act, dsk, r) ==
  IF ~m THEN Out(TRUE, m, c, act, dsk, <<>>)
  ELSE LET um == lfs_unmount(act, dsk, r)
           log == <<Call("lfs_unmount", NULL, um.rc, m, act)>>
       IN  IF VerifyFails(um.rc)
           THEN Out(TRUE, m, c, um.active, um.disk, log)
           ELSE Out(TRUE, FALSE, c, um.active, um.disk, log)

\* void Adafruit_LittleFS::end(void); ret is not a value of the code.
end(m, c, act, dsk, r) ==
  IF ~m THEN Out(TRUE, m, c, act, dsk, <<>>)
  ELSE LET m1 == FALSE
           um == lfs_unmount(act, dsk, r)
           log == <<Call("lfs_unmount", NULL, um.rc, m1, act)>>
       IN  Out(TRUE, m1, c, um.active, um.disk, log)

\* format without the remount.
format_noRemount(m, c, act, dsk, ru, rf, rm) ==
  LET um == IF m THEN lfs_unmount(act, dsk, ru)
                 ELSE [rc |-> LFS_ERR_OK, active |-> act, disk |-> dsk]
      l1 == IF m THEN <<Call("lfs_unmount", NULL, um.rc, m, act)>> ELSE <<>>
  IN  IF m /\ VerifyFails(um.rc) THEN Out(FALSE, m, c, um.active, um.disk, l1)
      ELSE LET fm == lfs_format(um.active, um.disk, c, rf)
               l2 == Append(l1, Call("lfs_format", c, fm.rc, m, um.active))
           IN  IF VerifyFails(fm.rc) THEN Out(FALSE, m, c, fm.active, fm.disk, l2)
               ELSE Out(TRUE, m, c, fm.active, fm.disk, l2)

\* format with the _mounted tests inverted.
format_inverted(m, c, act, dsk, ru, rf, rm) ==
  LET um == IF ~m THEN lfs_unmount(act, dsk, ru)
                  ELSE [rc |-> LFS_ERR_OK, active |-> act, disk |-> dsk]
      l1 == IF ~m THEN <<Call("lfs_unmount", NULL, um.rc, m, act)>> ELSE <<>>
  IN  IF ~m /\ VerifyFails(um.rc) THEN Out(FALSE, m, c, um.active, um.disk, l1)
      ELSE LET fm == lfs_format(um.active, um.disk, c, rf)
               l2 == Append(l1, Call("lfs_format", c, fm.rc, m, um.active))
           IN  IF VerifyFails(fm.rc) THEN Out(FALSE, m, c, fm.active, fm.disk, l2)
               ELSE IF m THEN Out(TRUE, m, c, fm.active, fm.disk, l2)
               ELSE LET mt == lfs_mount(fm.active, fm.disk, c, rm)
                        l3 == Append(l2, Call("lfs_mount", c, mt.rc, m, fm.active))
                    IN  IF VerifyFails(mt.rc)
                        THEN Out(FALSE, m, c, mt.active, mt.disk, l3)
                        ELSE Out(TRUE, m, c, mt.active, mt.disk, l3)

\* format going on to lfs_format after a failed unmount.
format_noAbort(m, c, act, dsk, ru, rf, rm) ==
  LET um == IF m THEN lfs_unmount(act, dsk, ru)
                 ELSE [rc |-> LFS_ERR_OK, active |-> act, disk |-> dsk]
      l1 == IF m THEN <<Call("lfs_unmount", NULL, um.rc, m, act)>> ELSE <<>>
      fm == lfs_format(um.active, um.disk, c, rf)
      l2 == Append(l1, Call("lfs_format", c, fm.rc, m, um.active))
  IN  IF VerifyFails(fm.rc) THEN Out(FALSE, m, c, fm.active, fm.disk, l2)
      ELSE IF ~m THEN Out(TRUE, m, c, fm.active, fm.disk, l2)
      ELSE LET mt == lfs_mount(fm.active, fm.disk, c, rm)
               l3 == Append(l2, Call("lfs_mount", c, mt.rc, m, fm.active))
           IN  IF VerifyFails(mt.rc)
               THEN Out(FALSE, m, c, mt.active, mt.disk, l3)
               ELSE Out(TRUE, m, c, mt.active, mt.disk, l3)

\* bool Adafruit_LittleFS::format (void): _mounted is read, never written.
format(m, c, act, dsk, ru, rf, rm) ==
  LET um == IF m THEN lfs_unmount(act, dsk, ru)
                 ELSE [rc |-> LFS_ERR_OK, active |-> act, disk |-> dsk]
      l1 == IF m THEN <<Call("lfs_unmount", NULL, um.rc, m, act)>> ELSE <<>>
  IN  IF m /\ VerifyFails(um.rc) THEN Out(FALSE, m, c, um.active, um.disk, l1)
      ELSE LET fm == lfs_format(um.active, um.disk, c, rf)
               l2 == Append(l1, Call("lfs_format", c, fm.rc, m, um.active))
           IN  IF VerifyFails(fm.rc) THEN Out(FALSE, m, c, fm.active, fm.disk, l2)
               ELSE IF ~m THEN Out(TRUE, m, c, fm.active, fm.disk, l2)
               ELSE LET mt == lfs_mount(fm.active, fm.disk, c, rm)
                        l3 == Append(l2, Call("lfs_mount", c, mt.rc, m, fm.active))
                    IN  IF VerifyFails(mt.rc)
                        THEN Out(FALSE, m, c, mt.active, mt.disk, l3)
                        ELSE Out(TRUE, m, c, mt.active, mt.disk, l3)

---------------------------------------------------------------------------
(* Paths are C strings over Chars, held as sequences of characters.  A    *)
(* pointer into a string is an index 1..Len+1, Len+1 being the terminator. *)

Chars == {"/", "a"}
Paths == UNION {[1..n -> Chars] : n \in 0..MaxPathLen}

\* strchr(s + from - 1, ch): index of the first ch at or after from, 0 (NULL)
\* when there is none.
strchr(s, from, ch) ==
  LET hits == {i \in from..Len(s) : s[i] = ch}
  IN  IF hits = {} THEN 0 ELSE CHOOSE i \in hits : \A j \in hits : i <= j

\* The names of a path as the library resolves it: separators skipped, empty
\* names dropped.  The empty list is the root.
RECURSIVE Components(_)
Components(s) ==
  IF s = <<>> THEN <<>>
  ELSE IF Head(s) = "/" THEN Components(Tail(s))
  ELSE LET nxt == strchr(s, 1, "/")
           n == IF nxt = 0 THEN Len(s) ELSE nxt - 1
       IN  <<SubSeq(s, 1, n)>> \o Components(SubSeq(s, n + 1, Len(s)))

NoFault == "none"
CreateFaults == {LFS_ERR_IO, LFS_ERR_NOSPC}
StatWishes == {LFS_ERR_OK, LFS_ERR_IO}

\* lfs_mkdir: the create primitive.  The root and an existing directory give
\* LFS_ERR_EXIST, a missing parent gives LFS_ERR_NOENT; an I/O fault can hit
\* any call, lack of space only a call that would create.
lfs_mkdir(t, path, fault) ==
  LET names == Components(path)
      parentsThere == \A k \in 1..(Len(names) - 1) : SubSeq(names, 1, k) \in t
  IN  IF fault = LFS_ERR_IO THEN [rc |-> LFS_ERR_IO, tree |-> t]
      ELSE IF names = <<>> THEN [rc |-> LFS_ERR_EXIST, tree |-> t]
      ELSE IF ~parentsThere THEN [rc |-> LFS_ERR_NOENT, tree |-> t]
      ELSE IF names \in t THEN [rc |-> LFS_ERR_EXIST, tree |-> t]
      ELSE IF fault = LFS_ERR_NOSPC THEN [rc |-> LFS_ERR_NOSPC, tree |-> t]
      ELSE [rc |-> LFS_ERR_OK, tree |-> t \cup {names}]

\* lfs_stat: 0 for the root and for an existing directory.
lfs_stat(t, path, r) ==
  IF r # LFS_ERR_OK THEN r
  ELSE IF Components(path) = <<>> \/ Components(path) \in t THEN LFS_ERR_OK
  ELSE LFS_ERR_NOENT

\* exists answering true unless the entry is missing.
exists_unlessMissing(t, filepath, r) == LFS_ERR_NOENT # lfs_stat(t, filepath, r)

\* bool Adafruit_LittleFS::exists (char const *filepath)
exists(t, filepath, r) == LFS_ERR_OK = lfs_stat(t, filepath, r)

FILE_READ == "FILE_READ"
FILE_WRITE == "FILE_WRITE"
OpenWishes == {LFS_ERR_OK, LFS_ERR_IO}

\* File(filepath, mode, fs): the handle the File class builds on the
\* filesystem; it is open when the library opened the entry.
File(t, filepath, mode, r) ==
  [path |-> filepath, mode |-> mode,
   isOpen |-> r = LFS_ERR_OK /\ lfs_stat(t, filepath, r) = LFS_ERR_OK]

\* File Adafruit_LittleFS::open (char const *filepath, uint8_t mode)
open(t, filepath, mode, r) == File(t, filepath, mode, r)

RemoveWishes == {LFS_ERR_OK, LFS_ERR_IO}

\* lfs_remove: the one remove primitive.  It takes a directory with all that
\* is below it; the root cannot be removed, a missing entry is LFS_ERR_NOENT.
lfs_remove(t, path, r) ==
  LET names == Components(path)
      below == {d \in t : Len(d) >= Len(names) /\ SubSeq(d, 1, Len(names)) = names}
  IN  IF r # LFS_ERR_OK THEN [rc |-> r, tree |-> t]
      ELSE IF names = <<>> THEN [rc |-> LFS_ERR_INVAL, tree |-> t]
      ELSE IF names \notin t THEN [rc |-> LFS_ERR_NOENT, tree |-> t]
      ELSE [rc |-> LFS_ERR_OK, tree |-> t \ below]

\* bool Adafruit_LittleFS::remove (char const *filepath)
remove(t, filepath, r) ==
  LET rm == lfs_remove(t, filepath, r)
      log == <<[path |-> filepath, rc |-> rm.rc]>>
  IN  IF VerifyFails(rm.rc) THEN [ret |-> FALSE, tree |-> rm.tree, calls |-> log]
      ELSE [ret |-> TRUE, tree |-> rm.tree, calls |-> log]

\* bool Adafruit_LittleFS::rmdir (char const *filepath)
rmdir(t, filepath, r) ==
  LET rm == lfs_remove(t, filepath, r)
      log == <<[path |-> filepath, rc |-> rm.rc]>>
  IN  IF VerifyFails(rm.rc)
      THEN [ret |-> VerifyDefaultRet(rm.rc), tree |-> rm.tree, calls |-> log]
      ELSE [ret |-> TRUE, tree |-> rm.tree, calls |-> log]

\* bool Adafruit_LittleFS::rmdir_r (char const *filepath)
rmdir_r(t, filepath, r) ==
  LET rm == lfs_remove(t, filepath, r)
      log == <<[path |-> filepath, rc |-> rm.rc]>>
  IN  IF VerifyFails(rm.rc)
      THEN [ret |-> VerifyDefaultRet(rm.rc), tree |-> rm.tree, calls |-> log]
      ELSE [ret |-> TRUE, tree |-> rm.tree, calls |-> log]

\* The fault, if any, the environment puts on the k-th create call.
FaultAt(k, failAt, fcode) == IF k = failAt THEN fcode ELSE NoFault

\* The walk failing on LFS_ERR_EXIST like on any other error.
RECURSIVE mkdir_walk_existFails(_, _, _, _, _, _)
mkdir_walk_existFails(filepath, slash, t, calls, failAt, fcode) ==
  LET pos == strchr(filepath, slash, "/")
      arg == IF pos = 0 THEN filepath ELSE SubSeq(filepath, 1, pos - 1)
      mk == lfs_mkdir(t, arg, FaultAt(Len(calls) + 1, failAt, fcode))
      log == Append(calls, [path |-> arg, rc |-> mk.rc])
  IN  IF mk.rc # LFS_ERR_OK
      THEN [ret |-> FALSE, tree |-> mk.tree, calls |-> log]
      ELSE IF pos = 0 THEN [ret |-> TRUE, tree |-> mk.tree, calls |-> log]
      ELSE mkdir_walk_existFails(filepath, pos + 1, mk.tree, log, failAt, fcode)

\* The walk ignoring the result of the intermediate creates.
RECURSIVE mkdir_walk_ignoreParent(_, _, _, _, _, _)
mkdir_walk_ignoreParent(filepath, slash, t, calls, failAt, fcode) ==
  LET pos == strchr(filepath, slash, "/")
      arg == IF pos = 0 THEN filepath ELSE SubSeq(filepath, 1, pos - 1)
      mk == lfs_mkdir(t, arg, FaultAt(Len(calls) + 1, failAt, fcode))
      log == Append(calls, [path |-> arg, rc |-> mk.rc])
  IN  IF pos # 0
      THEN mkdir_walk_ignoreParent(filepath, pos + 1, mk.tree, log, failAt, fcode)
      ELSE IF mk.rc # LFS_ERR_OK /\ mk.rc # LFS_ERR_EXIST
      THEN [ret |-> FALSE, tree |-> mk.tree, calls |-> log]
      ELSE [ret |-> TRUE, tree |-> mk.tree, calls |-> log]

\* The walk making no create call for a prefix that ends in a separator.
RECURSIVE mkdir_walk_collapse(_, _, _, _, _, _)
mkdir_walk_collapse(filepath, slash, t, calls, failAt, fcode) ==
  LET pos == strchr(filepath, slash, "/")
      arg == IF pos = 0 THEN filepath ELSE SubSeq(filepath, 1, pos - 1)
      mk == lfs_mkdir(t, arg, FaultAt(Len(calls) + 1, failAt, fcode))
      log == Append(calls, [path |-> arg, rc |-> mk.rc])
  IN  IF pos # 0 /\ arg[Len(arg)] = "/"
      THEN mkdir_walk_collapse(filepath, pos + 1, t, calls, failAt, fcode)
      ELSE IF mk.rc # LFS_ERR_OK /\ mk.rc # LFS_ERR_EXIST
      THEN [ret |-> FALSE, tree |-> mk.tree, calls |-> log]
      ELSE IF pos = 0 THEN [ret |-> TRUE, tree |-> mk.tree, calls |-> log]
      ELSE mkdir_walk_collapse(filepath, pos + 1, mk.tree, log, failAt, fcode)

\* The loop of mkdir and the leaf create after it: slash is where the search
\* for the next separator starts, calls the create calls made so far.
RECURSIVE mkdir_walk(_, _, _, _, _, _)
mkdir_walk(filepath, slash, t, calls, failAt, fcode) ==
  LET pos == strchr(filepath, slash, "/")
      arg == IF pos = 0 THEN filepath ELSE SubSeq(filepath, 1, pos - 1)
      mk == lfs_mkdir(t, arg, FaultAt(Len(calls) + 1, failAt, fcode))
      log == Append(calls, [path |-> arg, rc |-> mk.rc])
  IN  IF mk.rc # LFS_ERR_OK /\ mk.rc # LFS_ERR_EXIST
      THEN [ret |-> FALSE, tree |-> mk.tree, calls |-> log]
      ELSE IF pos = 0 THEN [ret |-> TRUE, tree |-> mk.tree, calls |-> log]
      ELSE mkdir_walk(filepath, pos + 1, mk.tree, log, failAt, fcode)

\* mkdir without the skip of the root separator.
mkdir_noSkip(t, filepath, failAt, fcode) ==
  mkdir_walk(filepath, 1, t, <<>>, failAt, fcode)

\* bool Adafruit_LittleFS::mkdir (char const *filepath)
mkdir(t, filepath, failAt, fcode) ==
  LET slash == IF Len(filepath) >= 1 /\ filepath[1] = "/" THEN 2 ELSE 1
  IN  mkdir_walk(filepath, slash, t, <<>>, failAt, fcode)

---------------------------------------------------------------------------
(* LFS disk IO: the block device littlefs is given, on the flash driver.   *)
(* Addresses are uint32_t; the device ends far below 2^32 and block and    *)
(* offset stay inside it, so no sum wraps.  The driver (flash_nrf5x_read,  *)
(* _write, _write8, _flush) is modelled by its contract: a write puts the  *)
(* bytes given at the addresses given, a read returns what is there.       *)

LFS_BLOCK_SIZE == 128
LFS_FLASH_ADDR == 970752

Blocks == 0..(NumBlocks - 1)
FlashAddrs == LFS_FLASH_ADDR..(LFS_FLASH_ADDR + NumBlocks * LFS_BLOCK_SIZE - 1)

\* flash_nrf5x_read(buffer, addr, size): the size bytes from addr on.
flash_nrf5x_read(mem, addr, size) == [i \in 1..size |-> mem[addr + i - 1]]

\* flash_nrf5x_write(addr, buffer, size)
flash_nrf5x_write(mem, addr, buffer, size) ==
  [a \in DOMAIN mem |->
     IF a >= addr /\ a < addr + size THEN buffer[a - addr + 1] ELSE mem[a]]

\* flash_nrf5x_write8(addr, value)
flash_nrf5x_write8(mem, addr, value) == [mem EXCEPT ![addr] = value]

\* flash_nrf5x_flush(): what a read returns does not change.
flash_nrf5x_flush(mem) == mem

\* One write of the driver, as the device sees it: first address, bytes.
Wr(addr, n) == [addr |-> addr, n |-> n]

\* lba2addr with half the block size.
lba2addr_halfBlock(block) ==
  LFS_FLASH_ADDR + block * (LFS_BLOCK_SIZE \div 2)

\* static inline uint32_t lba2addr(uint32_t block)
lba2addr(block) == LFS_FLASH_ADDR + block * LFS_BLOCK_SIZE

\* The read leaving the offset out of the address.
internal_flash_read_noOff(mem, block, off, size) ==
  LET addr == lba2addr(block)
  IN  [ret |-> 0, buf |-> flash_nrf5x_read(mem, addr, size)]

\* static int _internal_flash_read (c, block, off, buffer, size)
internal_flash_read(mem, block, off, size) ==
  LET addr == lba2addr(block) + off
  IN  [ret |-> 0, buf |-> flash_nrf5x_read(mem, addr, size)]

\* static int _internal_flash_prog (c, block, off, buffer, size)
internal_flash_prog(mem, block, off, buffer, size) ==
  LET addr == lba2addr(block) + off
  IN  [ret |-> 0, mem |-> flash_nrf5x_write(mem, addr, buffer, size),
       writes |-> <<Wr(addr, size)>>]

\* The memory after a run of flash_nrf5x_write8 calls, each of value, at the
\* addresses of writes in their order.
write8_all(mem, writes, value) ==
  LET hit == {writes[k].addr : k \in 1..Len(writes)}
  IN  [a \in DOMAIN mem |-> IF a \in hit THEN value ELSE mem[a]]

\* The erase loop stopping one byte short.
erase_loop_short(mem, addr) ==
  LET writes == [k \in 1..(LFS_BLOCK_SIZE - 1) |-> Wr(addr + (k - 1), 1)]
  IN  [ret |-> 0, mem |-> write8_all(mem, writes, 255), writes |-> writes]

\* for(int i=0; i <LFS_BLOCK_SIZE; i++) flash_nrf5x_write8(addr + i, 0xFF);
\* the k-th pass of the loop has i = k - 1.
erase_loop(mem, addr) ==
  LET writes == [k \in 1..LFS_BLOCK_SIZE |-> Wr(addr + (k - 1), 1)]
  IN  [ret |-> 0, mem |-> write8_all(mem, writes, 255), writes |-> writes]

\* static int _internal_flash_erase (c, block)
internal_flash_erase(mem, block) ==
  LET addr == lba2addr(block)
  IN  erase_loop(mem, addr)

\* static int _internal_flash_sync (c)
internal_flash_sync(mem) == [ret |-> 0, mem |-> flash_nrf5x_flush(mem)]

\* The addresses a list of driver writes touches.
Written(writes) ==
  UNION {writes[k].addr..(writes[k].addr + writes[k].n - 1) : k \in 1..Len(writes)}

NoPending ==
  [valid |-> FALSE, block |-> 0, off |-> 0, size |-> 0, data |-> <<>>,
   onErased |-> FALSE, addrs |-> {}, ret |-> 0]

NoFlashOp ==
  [op |-> "none", block |-> 0, off |-> 0, size |-> 0, ret |-> 0, writes |-> <<>>]

\* The block device left out, for the behaviours that do not use it.
FlashIdle ==
  /\ flash = <<>>
  /\ buf = <<>>
  /\ fArgs = [block |-> 0, off |-> 0, size |-> 0, seed |-> 0]
  /\ pending = NoPending
  /\ flast = NoFlashOp

---------------------------------------------------------------------------
(* Lifecycle actions *)

\* What the fields were when the operation was called.
Pre == [mounted |-> mounted, lfs_cfg |-> lfs_cfg, active |-> active, disk |-> disk]

\* What the history keeps of a call once a later call has been made.
Earlier(h) == [op |-> h.op, ret |-> h.ret, calls |-> h.calls]

\* The call history after an operation with outcome o: the call in full, the
\* calls before it in short.  wish is the outcome the device allowed begin's
\* mount.
Logged(op, arg, wish, o) ==
  Tail_n(Append([i \in 1..Len(hist) |-> Earlier(hist[i])],
                [op |-> op, arg |-> arg, wish |-> wish, ret |-> o.ret,
                 calls |-> o.calls, pre |-> Pre]),
         HistLen)

\* lfs_mount calls since _mounted became true, after an operation.
MountsAfter(count, counted, o) ==
  IF ~o.mounted THEN 0
  ELSE IF counted THEN Min(count + Count(o.calls, "lfs_mount"), MaxCount)
  ELSE count

Begin ==
  \E cfg \in Configs \cup {NULL}, r \in MountWishes :
    LET o == begin(mounted, lfs_cfg, active, disk, cfg, r)
    IN  /\ mounted' = o.mounted
        /\ lfs_cfg' = o.lfs_cfg
        /\ active' = o.active
        /\ disk' = o.disk
        /\ hist' = Logged("begin", cfg, r, o)
        /\ mountsSinceMounted' = MountsAfter(mountsSinceMounted, TRUE, o)
        /\ beginMounts' = MountsAfter(beginMounts, TRUE, o)
        /\ UNCHANGED <<pathVars, flashVars>>

End ==
  \E r \in UnmountWishes :
    LET o == end(mounted, lfs_cfg, active, disk, r)
    IN  /\ mounted' = o.mounted
        /\ lfs_cfg' = o.lfs_cfg
        /\ active' = o.active
        /\ disk' = o.disk
        /\ hist' = Logged("end", NULL, NULL, o)
        /\ mountsSinceMounted' = MountsAfter(mountsSinceMounted, TRUE, o)
        /\ beginMounts' = MountsAfter(beginMounts, FALSE, o)
        /\ UNCHANGED <<pathVars, flashVars>>

Format ==
  \E ru \in UnmountWishes, rf \in FormatWishes, rm \in MountWishes :
    LET o == format(mounted, lfs_cfg, active, disk, ru, rf, rm)
    IN  /\ mounted' = o.mounted
        /\ lfs_cfg' = o.lfs_cfg
        /\ active' = o.active
        /\ disk' = o.disk
        /\ hist' = Logged("format", NULL, NULL, o)
        /\ mountsSinceMounted' = MountsAfter(mountsSinceMounted, TRUE, o)
        /\ beginMounts' = MountsAfter(beginMounts, FALSE, o)
        /\ UNCHANGED <<pathVars, flashVars>>

\* Adafruit_LittleFS(void) and Adafruit_LittleFS(struct lfs_config*); the
\* flash holds a filesystem or does not.
Init ==
  /\ mounted = FALSE
  /\ lfs_cfg \in Configs \cup {NULL}
  /\ active = FALSE
  /\ disk \in {"formatted", "corrupt"}
  /\ hist = <<>>
  /\ mountsSinceMounted = 0
  /\ beginMounts = 0
  /\ tree = {}
  /\ last = [op |-> "none", path |-> <<>>, ret |-> FALSE, calls |-> <<>>,
            pre |-> {}, again |-> FALSE]
  /\ argPath = <<>>
  /\ FlashIdle

Next == Begin \/ End \/ Format

Spec == Init /\ [][Next]_vars

---------------------------------------------------------------------------
(* Path operations on a mounted filesystem.  A behaviour works on one      *)
(* path, drawn at the start together with the directories already there;   *)
(* the calls are then made with it any number of times, each with its own  *)
(* outcome of the library calls.                                           *)

NoPathOp ==
  [op |-> "none", path |-> <<>>, ret |-> FALSE, calls |-> <<>>, pre |-> {},
   again |-> FALSE]

\* The filesystem as an earlier mkdir(p) of a short path left it.
InitTrees ==
  {mkdir({}, p, 0, LFS_ERR_IO).tree :
     p \in {q \in Paths : Len(q) <= MaxInitLen}}

\* The create calls mkdir makes for a path when none fails.
NumCalls(p) == Len(mkdir({}, p, 0, LFS_ERR_IO).calls)

Mkdir ==
  /\ \E failAt \in 0..NumCalls(argPath), fcode \in CreateFaults :
       LET o == mkdir(tree, argPath, failAt, fcode)
       IN  /\ tree' = o.tree
           /\ last' = [op |-> "mkdir", path |-> argPath, ret |-> o.ret,
                       calls |-> o.calls, pre |-> tree,
                       again |-> (last.op = "mkdir" /\ last.ret)]
  /\ UNCHANGED <<argPath, lifeVars, flashVars>>

\* exists() of the path or of a leading part of it.
Exists ==
  /\ \E n \in 0..Len(argPath), r \in StatWishes :
       LET p == SubSeq(argPath, 1, n)
       IN  last' = [op |-> "exists", path |-> p, ret |-> exists(tree, p, r),
                    calls |-> <<[path |-> p, rc |-> lfs_stat(tree, p, r)]>>,
                    pre |-> tree, again |-> FALSE]
  /\ UNCHANGED <<tree, argPath, lifeVars, flashVars>>

Open ==
  /\ \E mode \in {FILE_READ, FILE_WRITE}, r \in OpenWishes :
       LET f == open(tree, argPath, mode, r)
       IN  last' = [op |-> "open", path |-> f.path, ret |-> f.isOpen,
                    calls |-> <<>>, pre |-> tree, again |-> FALSE]
  /\ UNCHANGED <<tree, argPath, lifeVars, flashVars>>

\* The path operation op with outcome o, as the last one made.
Done(op, o) ==
  [op |-> op, path |-> argPath, ret |-> o.ret, calls |-> o.calls, pre |-> tree,
   again |-> FALSE]

Remove ==
  /\ \E r \in RemoveWishes :
       LET o == remove(tree, argPath, r)
       IN  tree' = o.tree /\ last' = Done("remove", o)
  /\ UNCHANGED <<argPath, lifeVars, flashVars>>

Rmdir ==
  /\ \E r \in RemoveWishes :
       LET o == rmdir(tree, argPath, r)
       IN  tree' = o.tree /\ last' = Done("rmdir", o)
  /\ UNCHANGED <<argPath, lifeVars, flashVars>>

RmdirR ==
  /\ \E r \in RemoveWishes :
       LET o == rmdir_r(tree, argPath, r)
       IN  tree' = o.tree /\ last' = Done("rmdir_r", o)
  /\ UNCHANGED <<argPath, lifeVars, flashVars>>

\* InternalFS, the instance built on _InternalFSConfig, after a successful
\* begin() on a formatted device.
InitFS ==
  /\ \E c \in {InternalFSConfig} :
       LET o == begin(FALSE, c, FALSE, "formatted", NULL, LFS_ERR_OK)
       IN  /\ mounted = o.mounted
           /\ lfs_cfg = o.lfs_cfg
           /\ active = o.active
           /\ disk = o.disk
           /\ hist = <<[op |-> "begin", arg |-> NULL, wish |-> LFS_ERR_OK,
                        ret |-> o.ret, calls |-> o.calls,
                        pre |-> [mounted |-> FALSE, lfs_cfg |-> c,
                                 active |-> FALSE, disk |-> "formatted"]]>>
  /\ mountsSinceMounted = 1
  /\ beginMounts = 1
  /\ tree \in InitTrees
  /\ argPath \in Paths
  /\ last = NoPathOp
  /\ FlashIdle

NextFS == Mkdir \/ Exists \/ Remove \/ Rmdir \/ RmdirR \/ Open

SpecFS == InitFS /\ [][NextFS]_vars

---------------------------------------------------------------------------
(* Block-device operations.  A behaviour starts from some flash contents   *)
(* and one region (block, offset, size) with the data to program there;    *)
(* erase and read also go to the other blocks.                             *)

FlashOffs == {0, 1, 127}
FlashSizes == {0, 1, 127, 128}
Seeds == {165}

\* The bytes the client programs: size bytes counting up from seed.
DataOf(seed, size) == [i \in 1..size |-> (seed + i) % 256]

FlashErase ==
  /\ \E b \in Blocks :
       LET o == internal_flash_erase(flash, b)
       IN  /\ flash' = o.mem
           /\ flast' = [op |-> "erase", block |-> b, off |-> 0,
                        size |-> LFS_BLOCK_SIZE, ret |-> o.ret,
                        writes |-> o.writes]
           /\ buf' = <<>>
           /\ pending' = IF Written(o.writes) \cap pending.addrs # {}
                         THEN NoPending ELSE pending
  /\ UNCHANGED <<fArgs, lifeVars, pathVars>>

FlashProg ==
  /\ LET data == DataOf(fArgs.seed, fArgs.size)
         o == internal_flash_prog(flash, fArgs.block, fArgs.off, data, fArgs.size)
     IN  /\ flash' = o.mem
         /\ flast' = [op |-> "prog", block |-> fArgs.block, off |-> fArgs.off,
                      size |-> fArgs.size, ret |-> o.ret, writes |-> o.writes]
         /\ buf' = <<>>
         /\ pending' = [valid |-> TRUE, block |-> fArgs.block, off |-> fArgs.off,
                        size |-> fArgs.size, data |-> data,
                        onErased |-> \A a \in Written(o.writes) : flash[a] = 255,
                        addrs |-> Written(o.writes), ret |-> o.ret]
  /\ UNCHANGED <<fArgs, lifeVars, pathVars>>

\* A read of the client's region in some block, or of a whole block.
FlashRead ==
  /\ \E b \in Blocks, whole \in BOOLEAN :
       LET off == IF whole THEN 0 ELSE fArgs.off
           size == IF whole THEN LFS_BLOCK_SIZE ELSE fArgs.size
           o == internal_flash_read(flash, b, off, size)
       IN  /\ buf' = o.buf
           /\ flast' = [op |-> "read", block |-> b, off |-> off, size |-> size,
                        ret |-> o.ret, writes |-> <<>>]
  /\ UNCHANGED <<flash, fArgs, pending, lifeVars, pathVars>>

FlashSync ==
  /\ LET o == internal_flash_sync(flash)
     IN  /\ flash' = o.mem
         /\ flast' = [op |-> "sync", block |-> 0, off |-> 0, size |-> 0,
                      ret |-> o.ret, writes |-> <<>>]
         /\ buf' = <<>>
  /\ UNCHANGED <<fArgs, pending, lifeVars, pathVars>>

\* Flash contents before the first operation: every address holding its
\* own low byte.
Priors ==
  {[a \in FlashAddrs |-> a % 256]}

InitFlash ==
  /\ mounted = FALSE
  /\ lfs_cfg = InternalFSConfig
  /\ active = FALSE
  /\ disk = "corrupt"
  /\ hist = <<>>
  /\ mountsSinceMounted = 0
  /\ beginMounts = 0
  /\ tree = {}
  /\ argPath = <<>>
  /\ last = NoPathOp
  /\ flash \in Priors
  /\ buf = <<>>
  /\ fArgs \in {x \in [block : Blocks, off : FlashOffs, size : FlashSizes, seed : Seeds] :
                  x.off + x.size <= LFS_BLOCK_SIZE}
  /\ pending = NoPending
  /\ flast = NoFlashOp

NextFlash == FlashErase \/ FlashProg \/ FlashRead \/ FlashSync

SpecFlash == InitFlash /\ [][NextFlash]_vars

---------------------------------------------------------------------------
(* Properties of the lifecycle *)

\* The most recent lifecycle call, and whether there is one of the given kind.
H == hist[Len(hist)]
LastIs(op) == Len(hist) > 0 /\ H.op = op
OneCall(h, fn) == Len(h.calls) = 1 /\ h.calls[1].fn = fn

\* C1, amended: a begin() issued while _mounted is already true returns true
\* and calls no library routine, and begin() calls lfs_mount at most once
\* between _mounted becoming true and the next end(); format() called while
\* mounted does call lfs_mount again.
C1_BeginIdempotent ==
  /\ (LastIs("begin") /\ H.pre.mounted) => (H.ret /\ H.calls = <<>>)
  /\ mounted => beginMounts <= 1

\* C1 as stated: begin() while mounted returns true without mounting, and
\* lfs_mount is called at most once between _mounted becoming true and the
\* next end().
C1_AsStated ==
  /\ (LastIs("begin") /\ H.pre.mounted) => (H.ret /\ H.calls = <<>>)
  /\ mounted => mountsSinceMounted <= 1

\* A second begin(cfg) right after a format() that remounted.
C1_Witness ==
  /\ Len(hist) >= 2
  /\ H.op = "begin" /\ H.pre.mounted /\ H.arg # NULL
  /\ hist[Len(hist) - 1].op = "format"
  /\ mountsSinceMounted = 2 /\ beginMounts = 1

\* C2, amended: begin(cfg) with a non-null cfg called while unmounted stores
\* cfg, whether or not the mount then succeeds; called while mounted it leaves
\* the stored config as it was.
C2_ConfigStoredWhenUnmounted ==
  (LastIs("begin") /\ H.arg # NULL) =>
     /\ ~H.pre.mounted => lfs_cfg = H.arg
     /\ H.pre.mounted => lfs_cfg = H.pre.lfs_cfg

\* C2 as stated: after begin(cfg) with a non-null cfg the stored config is
\* cfg, mounted or not.
C2_AsStated ==
  (LastIs("begin") /\ H.arg # NULL) => lfs_cfg = H.arg

\* begin(cfg) while mounted with a config other than the stored one.
C2_Witness ==
  /\ LastIs("begin") /\ H.arg # NULL /\ H.pre.mounted
  /\ H.pre.lfs_cfg # H.arg

\* C3: a format() that returns true leaves _mounted as it was and the library
\* holding a mount exactly when it was mounted before; when it was mounted,
\* unmount, format and mount ran in that order and all succeeded.
C3_FormatRestoresMount ==
  (LastIs("format") /\ H.ret) =>
     /\ mounted = H.pre.mounted
     /\ active = H.pre.mounted
     /\ H.pre.mounted =>
          /\ Len(H.calls) = 3
          /\ H.calls[1].fn = "lfs_unmount" /\ H.calls[2].fn = "lfs_format"
          /\ H.calls[3].fn = "lfs_mount"
          /\ \A i \in 1..3 : H.calls[i].rc = LFS_ERR_OK
     /\ ~H.pre.mounted => OneCall(H, "lfs_format")

\* A successful format() of a mounted filesystem.
C3_Witness == LastIs("format") /\ H.ret /\ H.pre.mounted /\ mounted /\ active

\* C4 as stated: a format() called while mounted whose unmount succeeded and
\* whose format or remount then failed leaves the object reporting Unmounted.
C4_PartialFormatUnmounted ==
  (/\ LastIs("format") /\ H.pre.mounted /\ ~H.ret
   /\ Len(H.calls) >= 2 /\ H.calls[1].rc = LFS_ERR_OK) => ~mounted

\* C5: after end() _mounted is false whatever lfs_unmount returned; called
\* while mounted, end() clears _mounted before its single lfs_unmount call;
\* called while unmounted it calls nothing and changes nothing.
C5_EndAlwaysUnmounts ==
  LastIs("end") =>
     /\ ~mounted
     /\ H.pre.mounted =>
          /\ OneCall(H, "lfs_unmount")
          /\ H.calls[1].flag = FALSE
     /\ ~H.pre.mounted =>
          /\ H.calls = <<>>
          /\ Pre = H.pre

\* end() while mounted, with lfs_unmount failing.
C5_Witness ==
  /\ LastIs("end") /\ H.pre.mounted /\ Len(H.calls) = 1
  /\ H.calls[1].rc # LFS_ERR_OK /\ ~mounted

\* C6: begin() while unmounted with neither a stored nor a supplied config
\* returns false, calls no library routine and leaves the object unmounted
\* with no config.
C6_ConfigMissing ==
  (LastIs("begin") /\ ~H.pre.mounted /\ H.pre.lfs_cfg = NULL /\ H.arg = NULL) =>
     /\ ~H.ret
     /\ H.calls = <<>>
     /\ ~mounted
     /\ lfs_cfg = NULL

\* begin() with no config at all.
C6_Witness ==
  LastIs("begin") /\ ~H.pre.mounted /\ H.pre.lfs_cfg = NULL /\ H.arg = NULL /\ ~H.ret

\* C7: begin() while unmounted with a config available calls lfs_mount
\* exactly once and nothing else; a failed mount gives false and leaves the
\* object unmounted, a successful one gives true and leaves it mounted; and
\* begin() returns true only with _mounted true.
C7_BeginMounts ==
  LastIs("begin") =>
     /\ (~H.pre.mounted /\ (H.arg # NULL \/ H.pre.lfs_cfg # NULL)) =>
          /\ OneCall(H, "lfs_mount")
          /\ H.calls[1].cfg = lfs_cfg
          /\ H.calls[1].rc # LFS_ERR_OK => (~H.ret /\ ~mounted)
          /\ H.calls[1].rc = LFS_ERR_OK => (H.ret /\ mounted)
     /\ H.ret => mounted

\* begin() whose mount failed.
C7_Witness ==
  /\ LastIs("begin") /\ ~H.pre.mounted /\ Len(H.calls) = 1
  /\ H.calls[1].rc # LFS_ERR_OK /\ ~H.ret /\ ~mounted

\* A begin() that failed because lfs_mount rejected the device.
MountRejected(h) ==
  h.op = "begin" /\ ~h.ret /\ OneCall(h, "lfs_mount") /\ h.calls[1].rc # LFS_ERR_OK

\* C8: a format() right after a begin() whose mount was rejected runs
\* lfs_format alone (no unmount, no remount); if that format succeeds and the
\* next call is a begin() whose mount the device allows, that begin() mounts
\* once, returns true and leaves the object mounted.
C8_RecoveryPath ==
  /\ (Len(hist) >= 2 /\ MountRejected(hist[Len(hist) - 1]) /\ H.op = "format") =>
        (OneCall(H, "lfs_format") /\ ~mounted)
  /\ (/\ Len(hist) >= 3 /\ MountRejected(hist[Len(hist) - 2])
      /\ hist[Len(hist) - 1].op = "format" /\ hist[Len(hist) - 1].ret
      /\ H.op = "begin" /\ H.wish = LFS_ERR_OK) =>
        /\ H.ret /\ mounted /\ active
        /\ OneCall(H, "lfs_mount") /\ H.calls[1].rc = LFS_ERR_OK

\* begin() rejected on a corrupt device, format(), begin() mounted.
C8_Witness ==
  /\ Len(hist) >= 3 /\ MountRejected(hist[Len(hist) - 2])
  /\ hist[Len(hist) - 2].calls[1].rc = LFS_ERR_CORRUPT
  /\ hist[Len(hist) - 1].op = "format" /\ hist[Len(hist) - 1].ret
  /\ H.op = "begin" /\ H.arg = NULL /\ H.ret /\ mounted

---------------------------------------------------------------------------
(* Properties of mkdir *)

Slash == <<"/">>
A == <<"a">>

\* An absolute path of non-empty names: no doubled or trailing separator.
WellFormed(p) ==
  /\ Len(p) >= 2
  /\ p[1] = "/"
  /\ p[Len(p)] # "/"
  /\ \A i \in 1..(Len(p) - 1) : ~(p[i] = "/" /\ p[i + 1] = "/")

\* The directories a well-formed path names: the path cut before each
\* separator but the first, and the path itself.
DirPrefixes(p) ==
  {SubSeq(p, 1, i) : i \in {j \in 2..Len(p) : j = Len(p) \/ p[j + 1] = "/"}}

\* The create primitive failed no call for a reason of the device.
Undisturbed(calls) ==
  \A i \in 1..Len(calls) : calls[i].rc \notin CreateFaults

\* C9: with a create primitive that only refuses a missing parent, mkdir of a
\* well-formed path returns true and every directory on the path then exists
\* (on the empty filesystem exactly those directories exist); a second mkdir
\* of the same path returns true and leaves the set of directories as it was.
C9_MkdirCreatesAll ==
  (last.op = "mkdir" /\ WellFormed(last.path) /\ Undisturbed(last.calls)) =>
     /\ last.ret
     /\ \A d \in DirPrefixes(last.path) : exists(tree, d, LFS_ERR_OK)
     /\ last.pre = {} => tree = {Components(d) : d \in DirPrefixes(last.path)}
     /\ last.again => tree = last.pre

\* The second mkdir("/a/a/a") on a filesystem that was empty before the first.
C9_Witness ==
  /\ last.op = "mkdir" /\ last.again /\ last.ret
  /\ last.path = Slash \o A \o Slash \o A \o Slash \o A
  /\ Undisturbed(last.calls)
  /\ tree = {<<A>>, <<A, A>>, <<A, A, A>>}
  /\ tree = last.pre

Accepted(rc) == rc = LFS_ERR_OK \/ rc = LFS_ERR_EXIST

\* C10: in mkdir a create result of OK or "already exists" lets the walk go
\* on to the next prefix and finally the leaf; any other result is the last
\* call made and makes mkdir return false; mkdir returns true exactly when
\* every create call it made returned OK or "already exists".
C10_MkdirErrorHandling ==
  last.op = "mkdir" =>
     /\ Len(last.calls) >= 1
     /\ \A i \in 1..(Len(last.calls) - 1) : Accepted(last.calls[i].rc)
     /\ last.ret <=> \A i \in 1..Len(last.calls) : Accepted(last.calls[i].rc)
     /\ \A i \in 1..Len(last.calls) :
          (Accepted(last.calls[i].rc) /\ last.calls[i].path # last.path)
             => i < Len(last.calls)
     /\ last.ret => last.calls[Len(last.calls)].path = last.path

\* A walk that passed an existing parent and then stopped on a full device
\* before the leaf.
C10_Witness ==
  /\ last.op = "mkdir" /\ ~last.ret /\ Len(last.calls) >= 2
  /\ last.calls[1].rc = LFS_ERR_EXIST
  /\ last.calls[Len(last.calls)].rc = LFS_ERR_NOSPC
  /\ last.calls[Len(last.calls)].path # last.path

\* The separators of a path other than one in first place, and the k-th of
\* them from the left.
Separators(p) == {j \in 2..Len(p) : p[j] = "/"}
NthSeparator(p, k) ==
  CHOOSE j \in Separators(p) : Cardinality({x \in Separators(p) : x < j}) = k - 1

\* The create calls of a walk of p that is not stopped: the part of p before
\* each separator, from left to right, then p.
Enumeration(p) ==
  [k \in 1..(Cardinality(Separators(p)) + 1) |->
     IF k <= Cardinality(Separators(p))
     THEN SubSeq(p, 1, NthSeparator(p, k) - 1)
     ELSE p]

\* C15: the k-th create call of mkdir(p) is for the part of p before the k-th
\* separator not in first place, and the one after the last of these is for
\* p itself; a walk that no create result stopped makes all of these calls,
\* one more than there are such separators, and no walk makes more.
C15_WalkerEnumeration ==
  last.op = "mkdir" =>
     /\ Len(last.calls) <= Cardinality(Separators(last.path)) + 1
     /\ LET all == Enumeration(last.path)
        IN  \A k \in 1..Len(last.calls) : last.calls[k].path = all[k]
     /\ last.ret => Len(last.calls) = Cardinality(Separators(last.path)) + 1
     /\ (last.ret /\ Separators(last.path) = {}) =>
          last.calls = <<[path |-> last.path, rc |-> last.calls[1].rc]>>

\* mkdir("/a/a/a") with every create returning OK: three calls.
C15_Witness ==
  /\ last.op = "mkdir" /\ last.ret
  /\ last.path = Slash \o A \o Slash \o A \o Slash \o A
  /\ [k \in 1..Len(last.calls) |-> last.calls[k].path]
       = <<Slash \o A, Slash \o A \o Slash \o A, last.path>>
  /\ \A k \in 1..Len(last.calls) : last.calls[k].rc = LFS_ERR_OK

\* The places of p where a separator follows a separator.
Doubled(p) == {j \in 2..Len(p) : p[j] = "/" /\ p[j - 1] = "/"}

\* C16: a walk of mkdir(p) that no create result stopped has made, for every
\* separator of p that follows another separator, a create call for the part
\* of p before it, a prefix that ends in a separator; and it has made one
\* create call for each separator not in first place, each for a different
\* prefix.
C16_SeparatorsNotCollapsed ==
  (last.op = "mkdir" /\ last.ret) =>
     /\ \A j \in Doubled(last.path) :
          \E k \in 1..(Len(last.calls) - 1) :
             /\ last.calls[k].path = SubSeq(last.path, 1, j - 1)
             /\ last.calls[k].path[j - 1] = "/"
     /\ \A j \in Separators(last.path) :
          Cardinality({k \in 1..(Len(last.calls) - 1) :
                         Len(last.calls[k].path) = j - 1}) = 1

\* mkdir("/a//a"): create calls for "/a", "/a/" and "/a//a".
C16_Witness ==
  /\ last.op = "mkdir" /\ last.ret
  /\ last.path = Slash \o A \o Slash \o Slash \o A
  /\ Len(last.calls) = 3
  /\ last.calls[1].path = Slash \o A
  /\ last.calls[2].path = Slash \o A \o Slash
  /\ last.calls[3].path = last.path

---------------------------------------------------------------------------
(* Properties of remove, rmdir and rmdir_r *)

RemoveOps == {"remove", "rmdir", "rmdir_r"}

C19_FlagMatchesLibrary ==
  /\ mounted <=> active
  /\ Len(hist) > 0 =>
       \A k \in 1..Len(H.calls) :
          /\ H.calls[k].fn = "lfs_mount" => ~H.calls[k].active
          /\ H.calls[k].fn = "lfs_unmount" => H.calls[k].active

\* C20 as stated: no call of lfs_mount or lfs_format is made with a null
\* configuration; a begin() or format() on an instance that holds none and
\* is given none calls no library routine and returns false.
C20_NoNullConfigCall ==
  Len(hist) > 0 =>
     /\ \A k \in 1..Len(H.calls) :
          H.calls[k].fn \in {"lfs_mount", "lfs_format"} => H.calls[k].cfg # NULL
     /\ (/\ H.op \in {"begin", "format"}
         /\ H.pre.lfs_cfg = NULL /\ H.arg = NULL) =>
          /\ H.calls = <<>>
          /\ ~H.ret

\* The library routines format() is to call, in order, when _mounted had
\* the value m at the call.
FormatSteps(m) ==
  IF m THEN <<"lfs_unmount", "lfs_format", "lfs_mount">> ELSE <<"lfs_format">>

\* C14: the library calls of format() are a leading part of unmount, format,
\* mount when it was called mounted and of format alone when unmounted; it
\* makes at least the first of them, every call but the last one made
\* returned success, it stops before the end only after a failed call, and
\* it returns true exactly when all the steps were made and all succeeded.
C14_FormatOrderAndAbort ==
  LastIs("format") =>
    LET steps == FormatSteps(H.pre.mounted)
        n == Len(H.calls)
    IN  /\ n >= 1 /\ n <= Len(steps)
        /\ \A k \in 1..n : H.calls[k].fn = steps[k]
        /\ \A k \in 1..(n - 1) : H.calls[k].rc = LFS_ERR_OK
        /\ n < Len(steps) => H.calls[n].rc # LFS_ERR_OK
        /\ H.ret <=> (n = Len(steps) /\ \A k \in 1..n : H.calls[k].rc = LFS_ERR_OK)

\* format() called mounted, stopped by the failure of lfs_format.
C14_Witness ==
  /\ LastIs("format") /\ H.pre.mounted /\ ~H.ret
  /\ Len(H.calls) = 2
  /\ H.calls[1].rc = LFS_ERR_OK
  /\ H.calls[2].fn = "lfs_format" /\ H.calls[2].rc # LFS_ERR_OK

---------------------------------------------------------------------------
(* Properties of the path operations as a whole *)

PathOps == {"exists", "mkdir", "remove", "rmdir", "rmdir_r", "open"}

\* The instance as the begin() before the path operations left it.
Begun == begin(FALSE, InternalFSConfig, FALSE, "formatted", NULL, LFS_ERR_OK)

\* C18: after any calls of exists, mkdir, remove, rmdir, rmdir_r and open,
\* whatever the library returned, _mounted and _lfs_cfg are as begin() left
\* them; exists makes one lfs_stat call on the path given and returns true
\* exactly when that call returned 0.
C18_PathOpsKeepMountState ==
  /\ last.op \in PathOps =>
       /\ mounted = Begun.mounted
       /\ lfs_cfg = Begun.lfs_cfg
  /\ last.op = "exists" =>
       /\ Len(last.calls) = 1
       /\ last.calls[1].path = last.path
       /\ last.ret <=> last.calls[1].rc = LFS_ERR_OK
  /\ \A r \in StatWishes :
       exists(tree, argPath, r) <=> lfs_stat(tree, argPath, r) = LFS_ERR_OK

\* exists() of a missing path on the mounted filesystem: false, still mounted.
C18_Witness ==
  /\ last.op = "exists" /\ ~last.ret
  /\ last.calls[1].rc = LFS_ERR_NOENT
  /\ mounted /\ lfs_cfg = InternalFSConfig

---------------------------------------------------------------------------
(* Properties of the block device *)

\* C12: a program of a region that was erased, then a read of the same block,
\* offset and size with nothing written to the region in between, fills the
\* buffer with the programmed bytes; both report 0.
C12_ProgReadRoundTrip ==
  (/\ flast.op = "read" /\ pending.valid /\ pending.onErased
   /\ flast.block = pending.block /\ flast.off = pending.off
   /\ flast.size = pending.size
   /\ pending.block < NumBlocks /\ pending.off + pending.size <= LFS_BLOCK_SIZE) =>
     /\ buf = pending.data
     /\ flast.ret = 0
     /\ pending.ret = 0

\* 127 bytes programmed at offset 1 of the erased last block and read back.
C12_Witness ==
  /\ flast.op = "read" /\ pending.valid /\ pending.onErased
  /\ flast.block = pending.block /\ flast.off = 1 /\ pending.off = 1
  /\ flast.size = 127 /\ pending.size = 127
  /\ pending.block = NumBlocks - 1
  /\ buf = DataOf(165, 127)

\* The addresses of a block, and a buffer of n bytes all equal to v.
BlockRange(b) == lba2addr(b)..(lba2addr(b) + LFS_BLOCK_SIZE - 1)
Filled(n, v) == [i \in 1..n |-> v]

\* C13: erase(b) makes exactly LFS_BLOCK_SIZE driver writes, each of one byte,
\* one for each address of block b, and reports 0; a read of the whole of
\* block b made right after the erase returns 0xFF in every byte.
C13_EraseThenRead ==
  [][/\ flast'.op = "erase" =>
          /\ flast'.ret = 0
          /\ Len(flast'.writes) = LFS_BLOCK_SIZE
          /\ \A k \in 1..Len(flast'.writes) : flast'.writes[k].n = 1
          /\ \A a \in BlockRange(flast'.block) :
               Cardinality({k \in 1..Len(flast'.writes) :
                              flast'.writes[k].addr = a}) = 1
     /\ (/\ flast.op = "erase" /\ flast'.op = "read"
         /\ flast'.block = flast.block
         /\ flast'.off = 0 /\ flast'.size = LFS_BLOCK_SIZE) =>
          /\ buf' = Filled(LFS_BLOCK_SIZE, 255)
          /\ flast'.ret = 0]_vars

\* The last block, which held other bytes, read back as 0xFF throughout.
C13_Witness ==
  /\ flast.op = "read" /\ flast.block = NumBlocks - 1
  /\ flast.off = 0 /\ flast.size = LFS_BLOCK_SIZE
  /\ buf = Filled(LFS_BLOCK_SIZE, 255)
  /\ \E a \in BlockRange(flast.block) : a % 256 # 255

\* The physical address of a byte: base address, block, offset.
Address(b, off) == LFS_FLASH_ADDR + b * LFS_BLOCK_SIZE + off
InBlockOffs == 0..(LFS_BLOCK_SIZE - 1)

\* The bytes at the addresses of S are the same before and after a step.
Kept(S) == \A a \in S : flash'[a] = flash[a]

\* C17: the operations address byte off of block b at Address(b, off), and
\* different pairs of a block and an offset inside the block have different
\* addresses (there are as many addresses as pairs); an erase of block b leaves every byte outside the
\* LFS_BLOCK_SIZE addresses from Address(b, 0) as it was, and a program of
\* size bytes at offset off of block b, inside the block, leaves every byte
\* outside the size addresses from Address(b, off) as it was, those of every
\* other block among them.
C17_BlockIsolation ==
  [][/\ \A b \in Blocks, off \in InBlockOffs :
          lba2addr(b) + off = Address(b, off)
     /\ Cardinality({Address(b, off) : b \in Blocks, off \in InBlockOffs})
          = Cardinality(Blocks \X InBlockOffs)
     /\ flast'.op = "erase" =>
          Kept({a \in FlashAddrs :
                  a < Address(flast'.block, 0)
                  \/ a >= Address(flast'.block, 0) + LFS_BLOCK_SIZE})
     /\ (flast'.op = "prog" /\ flast'.off + flast'.size <= LFS_BLOCK_SIZE) =>
          /\ Kept({a \in FlashAddrs :
                     a < Address(flast'.block, flast'.off)
                     \/ a >= Address(flast'.block, flast'.off) + flast'.size})
          /\ \A b \in Blocks \ {flast'.block} :
               Kept({Address(b, off) : off \in InBlockOffs})]_vars

\* The first block erased while the last block keeps the 128 bytes programmed
\* into it.
C17_Witness ==
  /\ flast.op = "erase" /\ flast.block = 0
  /\ pending.valid /\ pending.block = NumBlocks - 1
  /\ pending.off = 0 /\ pending.size = LFS_BLOCK_SIZE
  /\ \A i \in 1..LFS_BLOCK_SIZE :
       flash[Address(pending.block, i - 1)] = pending.data[i]
  /\ \A off \in InBlockOffs : flash[Address(0, off)] = 255

===========================================================================
